---- MODULE Spec2Model ----
(***************************************************************************)
(* A model of streadway/simpleuuid (src/uuid.go): the 16-byte time-ordered *)
(* identifier, its generation from a time, its decoding, its textual form  *)
(* and its comparison.                                                     *)
(*                                                                         *)
(* Go's int64 / uint64 values are wider than the integers of the model     *)
(* checker, so a 64-bit word is a sequence of four 16-bit limbs, least     *)
(* significant first, and the arithmetic of the source is carried out limb *)
(* by limb with Go's wrap-around (two's complement, modulo 2^64).          *)
(***************************************************************************)
EXTENDS Integers, Sequences, FiniteSets, TLC

(***************************************************************************)
(* 64-bit words                                                            *)
(***************************************************************************)

\* one limb holds 16 bits
Base == 65536

\* the sign bit of the top limb
SignBit == 32768

Zero64 == <<0, 0, 0, 0>>

\* a non-negative model integer below 2^31 as a 64-bit word
FromInt(n) == <<n % Base, n \div Base, 0, 0>>

\* a + b, wrapping modulo 2^64
Add64(a, b) ==
    LET c1 == a[1] + b[1]
        c2 == a[2] + b[2] + (c1 \div Base)
        c3 == a[3] + b[3] + (c2 \div Base)
        c4 == a[4] + b[4] + (c3 \div Base)
    IN  <<c1 % Base, c2 % Base, c3 % Base, c4 % Base>>

Not64(a) == <<Base - 1 - a[1], Base - 1 - a[2], Base - 1 - a[3], Base - 1 - a[4]>>

\* -a, wrapping (the negation of the least int64 is itself)
Neg64(a) == Add64(Not64(a), FromInt(1))

\* a - b, wrapping modulo 2^64
Sub64(a, b) == Add64(a, Neg64(b))

\* a as an int64 is negative
IsNeg64(a) == a[4] >= SignBit

\* a * k for a small k (0 <= k < 2^15), wrapping modulo 2^64
MulSmall64(a, k) ==
    LET c1 == a[1] * k
        c2 == a[2] * k + (c1 \div Base)
        c3 == a[3] * k + (c2 \div Base)
        c4 == a[4] * k + (c3 \div Base)
    IN  <<c1 % Base, c2 % Base, c3 % Base, c4 % Base>>

\* the unsigned quotient a / d for a small d (0 < d < 2^15)
UDivSmall64(a, d) ==
    LET n4 == a[4]
        n3 == (n4 % d) * Base + a[3]
        n2 == (n3 % d) * Base + a[2]
        n1 == (n2 % d) * Base + a[1]
    IN  <<n1 \div d, n2 \div d, n3 \div d, n4 \div d>>

\* Go's int64 division a / d by a small positive constant: truncated
\* towards zero
Quo64(a, d) ==
    IF IsNeg64(a) THEN Neg64(UDivSmall64(Neg64(a), d)) ELSE UDivSmall64(a, d)

\* unsigned a < b
ULess64(a, b) ==
    \/ a[4] < b[4]
    \/ a[4] = b[4] /\ a[3] < b[3]
    \/ a[4] = b[4] /\ a[3] = b[3] /\ a[2] < b[2]
    \/ a[4] = b[4] /\ a[3] = b[3] /\ a[2] = b[2] /\ a[1] < b[1]

\* int64 a < b
Less64(a, b) ==
    IF IsNeg64(a) # IsNeg64(b) THEN IsNeg64(a) ELSE ULess64(a, b)

RECURSIVE And16(_, _, _)
\* bitwise x & y of two limbs, over the low n bits
And16(x, y, n) ==
    IF n = 0 THEN 0
    ELSE (IF x % 2 = 1 /\ y % 2 = 1 THEN 1 ELSE 0) + 2 * And16(x \div 2, y \div 2, n - 1)

RECURSIVE Or16(_, _, _)
\* bitwise x | y of two limbs, over the low n bits
Or16(x, y, n) ==
    IF n = 0 THEN 0
    ELSE (IF x % 2 = 1 \/ y % 2 = 1 THEN 1 ELSE 0) + 2 * Or16(x \div 2, y \div 2, n - 1)

\* bits in a limb
LimbBits == 16

And64(a, b) == [i \in 1..4 |-> And16(a[i], b[i], LimbBits)]

Or64(a, b) == [i \in 1..4 |-> Or16(a[i], b[i], LimbBits)]

\* int64 a >> (16*k): arithmetic shift, the sign fills the top
Shr64(a, k) ==
    LET fill == IF IsNeg64(a) THEN Base - 1 ELSE 0
    IN  [i \in 1..4 |-> IF i + k <= 4 THEN a[i + k] ELSE fill]

\* int64 a << (16*k), wrapping
Shl64(a, k) == [i \in 1..4 |-> IF i - k >= 1 THEN a[i - k] ELSE 0]

RECURSIVE Dec(_)
\* the word written in decimal, three digits at a time:
\* Dec(<<1, 366, 458>>) is 1366458
Dec(ds) ==
    IF ds = <<>> THEN Zero64
    ELSE Add64(MulSmall64(Dec(SubSeq(ds, 1, Len(ds) - 1)), 1000), FromInt(ds[Len(ds)]))

(***************************************************************************)
(* Constants and errors of the package                                     *)
(***************************************************************************)

\* 0x01B21DD213814000, the 100ns ticks from 15 October 1582 to 1 January 1970
gregorianEpoch == <<16384, 4993, 7634, 434>>

size == 16

\* 0x8000
variant == 32768

\* 0x1000
version1 == 4096

\* max13bit set too wide: sixteen bits of clock sequence
max13bitWide == FromInt(65535)

\* (1 << 13) - 1
max13bit == FromInt(8191)

\* (1 << 16) - 1
max16bit == FromInt(65535)

\* (1 << 32) - 1
max32bit == <<65535, 65535, 0, 0>>

\* the nil slice as a value, and as a reference into the backing arrays
Nil == <<>>

NilRef == 0

NoError == "nil"

parseErrorLength == "Could not parse UUID due to mistmatched length"

\* encoding/hex's errors
hexErrLength == "encoding/hex: odd length hex string"

hexInvalidByte == "encoding/hex: invalid byte"

(***************************************************************************)
(* encoding/binary, big endian                                             *)
(***************************************************************************)

\* binary.BigEndian.PutUint16: the two bytes of a 16-bit value
PutUint16(v) == <<v \div 256, v % 256>>

\* binary.BigEndian.PutUint32: the four bytes of a 32-bit value, given as its
\* high and low halves
PutUint32(hi, lo) == PutUint16(hi) \o PutUint16(lo)

\* binary.BigEndian.Uint16 of b[i], b[i+1] (i counted from 1)
Uint16(b, i) == b[i] * 256 + b[i + 1]

\* uint16(x) of an int64
ToUint16(x) == x[1]

(***************************************************************************)
(* time.Time: seconds since the Unix epoch and nanoseconds within the      *)
(* second                                                                  *)
(***************************************************************************)

\* x * 1e9, wrapping
MulE9(x) == MulSmall64(MulSmall64(MulSmall64(x, 1000), 1000), 1000)

\* x / 1e9, truncated towards zero
QuoE9(x) == Quo64(Quo64(Quo64(x, 1000), 1000), 1000)

\* x % 1e9, with the sign of x
RemE9(x) == Sub64(x, MulE9(QuoE9(x)))

\* time.Unix(sec, nsec) with nsec the remainder of a division by 1e9 (so that
\* |nsec| < 1e9): a negative nsec borrows one second
TimeUnix(sec, nsec) ==
    IF IsNeg64(nsec)
    THEN [sec |-> Sub64(sec, FromInt(1)), nsec |-> Add64(nsec, Dec(<<1, 0, 0, 0>>))]
    ELSE [sec |-> sec, nsec |-> nsec]

\* t.UnixNano(): sec*1e9 + nsec as an int64
UnixNano(t) == Add64(MulE9(t.sec), t.nsec)

(***************************************************************************)
(* Time transform                                                          *)
(***************************************************************************)

\* fromUnixNano rounding to the nearest tick instead of truncating
fromUnixNanoRounding(ns) == Add64(Quo64(Add64(ns, FromInt(50)), 100), gregorianEpoch)

\* fromUnixNano forgetting the offset of the Gregorian epoch
fromUnixNanoNoOffset(ns) == Quo64(ns, 100)

fromUnixNano(ns) == Add64(Quo64(ns, 100), gregorianEpoch)

toUnixNano(t) == MulSmall64(Sub64(t, gregorianEpoch), 100)

(***************************************************************************)
(* Generation                                                              *)
(***************************************************************************)

\* rand(max): urandom.Int and the fallback prandom.Int63n both return a value
\* in [0, max); the model draws the least and the greatest of them
rand(max) == { Zero64, Sub64(max, FromInt(1)) }

\* NewTime(t) with the three values drawn by rand
NewTime(t, clock, node1, node2) ==
    LET ts == fromUnixNano(UnixNano(t))
        time_low == And64(ts, <<65535, 65535, 0, 0>>)
        time_mid == ToUint16(And64(Shr64(ts, 2), FromInt(65535)))
        time_hi  == Or16(ToUint16(And64(Shr64(ts, 3), FromInt(4095))), version1, LimbBits)
        clk      == ToUint16(Or64(clock, FromInt(variant)))
    IN  [uuid |-> PutUint32(time_low[2], time_low[1]) \o PutUint16(time_mid)
                    \o PutUint16(time_hi) \o PutUint16(clk)
                    \o PutUint16(ToUint16(node1)) \o PutUint32(node2[2], node2[1]),
         err  |-> NoError]

(***************************************************************************)
(* Accessors                                                               *)
(***************************************************************************)

\* the 60-bit timestamp held in bytes 0-7, the version nibble masked out
uuidTimeOf(me) ==
    LET time_low == <<Uint16(me, 3), Uint16(me, 1), 0, 0>>
        time_mid == FromInt(Uint16(me, 5))
        time_hi  == FromInt(And16(Uint16(me, 7), 4095, LimbBits))
    IN  Add64(Add64(time_low, Shl64(time_mid, 2)), Shl64(time_hi, 3))

Nanoseconds(me) == toUnixNano(uuidTimeOf(me))

Time(me) ==
    LET nsec == Nanoseconds(me)
    IN  TimeUnix(QuoE9(nsec), RemE9(nsec))

Version(me) == And16(Uint16(me, 7), 61440, LimbBits) \div 4096

Variant(me) == And16(Uint16(me, 9), 57344, LimbBits) \div 8192

RECURSIVE bytesCompare(_, _)
\* bytes.Compare: lexicographic, unsigned
bytesCompare(a, b) ==
    IF a = <<>> /\ b = <<>> THEN 0
    ELSE IF a = <<>> THEN -1
    ELSE IF b = <<>> THEN 1
    ELSE IF a[1] < b[1] THEN -1
    ELSE IF a[1] > b[1] THEN 1
    ELSE bytesCompare(Tail(a), Tail(b))

\* Compare as a plain comparison of the sixteen bytes
CompareBytewise(me, other) == bytesCompare(me, other)

\* Compare breaking ties on the node bytes only, the clock sequence left out
CompareNodeOnly(me, other) ==
    LET nsMe    == Nanoseconds(me)
        nsOther == Nanoseconds(other)
    IN  IF Less64(nsOther, nsMe) THEN 1
        ELSE IF Less64(nsMe, nsOther) THEN -1
        ELSE bytesCompare(SubSeq(me, 11, Len(me)), SubSeq(other, 11, Len(other)))

Compare(me, other) ==
    LET nsMe    == Nanoseconds(me)
        nsOther == Nanoseconds(other)
    IN  IF Less64(nsOther, nsMe) THEN 1
        ELSE IF Less64(nsMe, nsOther) THEN -1
        ELSE bytesCompare(SubSeq(me, 9, Len(me)), SubSeq(other, 9, Len(other)))

(***************************************************************************)
(* Text: a string is the sequence of its characters                        *)
(***************************************************************************)

\* encoding/hex's table of digits
hextable == <<"0", "1", "2", "3", "4", "5", "6", "7", "8", "9", "a", "b", "c", "d", "e", "f">>

\* the capital digits encoding/hex also reads
upperDigits == <<"A", "B", "C", "D", "E", "F">>

RECURSIVE EncodeToString(_)
\* hex.EncodeToString: two digits a byte, high nibble first
EncodeToString(b) ==
    IF b = <<>> THEN <<>>
    ELSE <<hextable[(b[1] \div 16) + 1], hextable[(b[1] % 16) + 1]>> \o EncodeToString(Tail(b))

\* encoding/hex's value of a digit, 16 and above for any other character
fromHexChar(ch) ==
    IF \E i \in 1..16 : hextable[i] = ch
    THEN (CHOOSE i \in 1..16 : hextable[i] = ch) - 1
    ELSE IF \E i \in 1..6 : upperDigits[i] = ch
    THEN (CHOOSE i \in 1..6 : upperDigits[i] = ch) + 9
    ELSE 255

RECURSIVE hexDecode(_, _, _)
\* hex.Decode from the pair ending at j on: a bad digit of a pair is reported
\* where it stands, then an odd length
hexDecode(src, j, dst) ==
    IF j <= Len(src)
    THEN LET a == fromHexChar(src[j - 1])
             b == fromHexChar(src[j])
         IN  IF a > 15 \/ b > 15
             THEN [bytes |-> dst, err |-> hexInvalidByte]
             ELSE hexDecode(src, j + 2, Append(dst, a * 16 + b))
    ELSE IF Len(src) % 2 = 1
    THEN IF fromHexChar(src[j - 1]) > 15
         THEN [bytes |-> dst, err |-> hexInvalidByte]
         ELSE [bytes |-> dst, err |-> hexErrLength]
    ELSE [bytes |-> dst, err |-> NoError]

\* hex.DecodeString
DecodeString(str) == hexDecode(str, 2, <<>>)

\* hex.DecodedLen
DecodedLen(x) == x \div 2

RECURSIVE ReplaceFirstHyphen(_)
\* strings.Replace(str, "-", "", 1): the first hyphen only
ReplaceFirstHyphen(str) ==
    IF str = <<>> THEN <<>>
    ELSE IF str[1] = "-" THEN Tail(str)
    ELSE <<str[1]>> \o ReplaceFirstHyphen(Tail(str))

\* strings.Replace(str, "-", "", -1): every hyphen removed
ReplaceHyphens(str) == SelectSeq(str, LAMBDA ch : ch # "-")

NewString(str) ==
    LET normalized == ReplaceHyphens(str)
    IN  IF DecodedLen(Len(normalized)) # size
        THEN [uuid |-> Nil, err |-> parseErrorLength]
        ELSE LET d == DecodeString(normalized)
             IN  IF d.err # NoError
                 THEN [uuid |-> Nil, err |-> d.err]
                 ELSE [uuid |-> d.bytes, err |-> NoError]

\* String with the node split after two bytes: 8-4-4-4-4-8
StringMisgrouped(me) ==
    EncodeToString(SubSeq(me, 1, 4)) \o <<"-">> \o
    EncodeToString(SubSeq(me, 5, 6)) \o <<"-">> \o
    EncodeToString(SubSeq(me, 7, 8)) \o <<"-">> \o
    EncodeToString(SubSeq(me, 9, 10)) \o <<"-">> \o
    EncodeToString(SubSeq(me, 11, 12)) \o <<"-">> \o
    EncodeToString(SubSeq(me, 13, 16))

\* me.String()
String(me) ==
    EncodeToString(SubSeq(me, 1, 4)) \o <<"-">> \o
    EncodeToString(SubSeq(me, 5, 6)) \o <<"-">> \o
    EncodeToString(SubSeq(me, 7, 8)) \o <<"-">> \o
    EncodeToString(SubSeq(me, 9, 10)) \o <<"-">> \o
    EncodeToString(SubSeq(me, 11, 16))

(***************************************************************************)
(* Construction from bytes: the backing arrays are explicit, so that two   *)
(* slices over the same array can be told from two copies                  *)
(***************************************************************************)

\* len(b) of a slice of the arrays m
len(m, b) == IF b = NilRef THEN 0 ELSE Len(m[b])

\* NewBytes handing back the caller's slice instead of a copy of it
NewBytesAliasing(m, bytes) ==
    IF len(m, bytes) # size
    THEN [mem |-> m, uuid |-> NilRef, err |-> parseErrorLength]
    ELSE [mem |-> m, uuid |-> bytes, err |-> NoError]

\* NewBytes accepting any slice of at least sixteen bytes
NewBytesAtLeast(m, bytes) ==
    IF len(m, bytes) < size
    THEN [mem |-> m, uuid |-> NilRef, err |-> parseErrorLength]
    ELSE [mem   |-> Append(m, [i \in 1..size |-> m[bytes][i]]),
          uuid  |-> Len(m) + 1,
          err   |-> NoError]

\* NewBytes(bytes) over the arrays m: make a new array, copy bytes[0:size]
\* into it
NewBytes(m, bytes) ==
    IF len(m, bytes) # size
    THEN [mem |-> m, uuid |-> NilRef, err |-> parseErrorLength]
    ELSE LET b   == [i \in 1..size |-> 0]
             src == SubSeq(m[bytes], 1, size)
         IN  [mem   |-> Append(m, [i \in 1..size |-> IF i <= Len(src) THEN src[i] ELSE b[i]]),
              uuid  |-> Len(m) + 1,
              err   |-> NoError]

\* Copy(uuid): the error of NewBytes is dropped
Copy(m, uuid) ==
    LET dup == NewBytes(m, uuid)
    IN  [mem |-> dup.mem, uuid |-> dup.uuid]

\* me.Bytes(): the slice itself
Bytes(me) == me

(***************************************************************************)
(* State                                                                   *)
(***************************************************************************)

VARIABLES
    t1, t2,     \* the times handed to NewTime
    u1, u2,     \* the identifiers NewTime returned, Nil before the call
    cmp,        \* [fwd |-> u1.Compare(u2), rev |-> u2.Compare(u1)], Nil before
    dec,        \* u1.Time(), Nil before
    mem,        \* the backing arrays allocated so far; a slice is the index of
                \* its array, NilRef the nil slice
    buf,        \* the caller's buffer
    u,          \* u, err := NewBytes(buf)
    c,          \* c := Copy(u)
    v,          \* v := u.Bytes()
    writes,     \* the number of bytes the caller has overwritten
    s,          \* the text handed to NewString
    hyphens,    \* the number of hyphens the caller has put into s
    p,          \* p, err := NewString(s)
    str,        \* p.String()
    q,          \* q, err := NewString(p.String())
    n,          \* n, err := NewString(strings.Replace(s, "-", "", -1))
    err         \* the error of the last constructor call

timeVars == <<t1, t2, u1, u2, cmp, dec>>

memVars == <<mem, buf, u, c, v, writes>>

strVars == <<s, hyphens, p, str, q, n>>

vars == <<timeVars, memVars, strVars, err>>

\* the part of the state a scenario does not use
TimeIdle == t1 = Nil /\ t2 = Nil /\ u1 = Nil /\ u2 = Nil /\ cmp = Nil /\ dec = Nil

MemIdle == mem = <<>> /\ buf = NilRef /\ u = NilRef /\ c = NilRef /\ v = NilRef /\ writes = 0

StrIdle == s = Nil /\ hyphens = 0 /\ p = Nil /\ str = Nil /\ q = Nil /\ n = Nil

(***************************************************************************)
(* Generating from a time, decoding and comparing                          *)
(***************************************************************************)

\* the times the model generates from, as time.Unix(sec, nsec) returns them:
\* around the Unix epoch on both sides, within one 100ns tick and across
\* ticks, a present-day time, the largest uint32 second, and the least and
\* the greatest time whose UnixNano() fits an int64
TimeSamples ==
    { [sec |-> Zero64, nsec |-> FromInt(0)],
      [sec |-> Zero64, nsec |-> FromInt(1)],
      [sec |-> Zero64, nsec |-> FromInt(99)],
      [sec |-> Zero64, nsec |-> FromInt(100)],
      [sec |-> Zero64, nsec |-> FromInt(150)],
      [sec |-> Neg64(FromInt(1)), nsec |-> FromInt(999999950)],
      [sec |-> Neg64(FromInt(1)), nsec |-> FromInt(999999850)],
      [sec |-> FromInt(1366458000), nsec |-> FromInt(0)],
      [sec |-> Dec(<<4, 294, 967, 295>>), nsec |-> FromInt(999999999)],
      [sec |-> Dec(<<9, 223, 372, 36>>), nsec |-> FromInt(854775807)],
      [sec |-> Neg64(Dec(<<9, 223, 372, 37>>)), nsec |-> FromInt(145224192)] }

InitTime ==
    /\ t1 \in TimeSamples
    /\ t2 \in TimeSamples
    /\ u1 = Nil
    /\ u2 = Nil
    /\ cmp = Nil
    /\ dec = Nil
    /\ err = NoError
    /\ MemIdle
    /\ StrIdle

\* u1, err := NewTime(t1)
GenerateFirst ==
    /\ u1 = Nil
    /\ \E clock \in rand(max13bit), node1 \in rand(max16bit), node2 \in rand(max32bit) :
          LET r == NewTime(t1, clock, node1, node2)
          IN  u1' = r.uuid /\ err' = r.err
    /\ UNCHANGED <<t1, t2, u2, cmp, dec, memVars, strVars>>

\* u2, err := NewTime(t2)
GenerateSecond ==
    /\ u1 # Nil
    /\ u2 = Nil
    /\ \E clock \in rand(max13bit), node1 \in rand(max16bit), node2 \in rand(max32bit) :
          LET r == NewTime(t2, clock, node1, node2)
          IN  u2' = r.uuid /\ err' = r.err
    /\ UNCHANGED <<t1, t2, u1, cmp, dec, memVars, strVars>>

\* u1.Compare(u2) and u2.Compare(u1)
CompareBoth ==
    /\ u1 # Nil
    /\ u2 # Nil
    /\ cmp = Nil
    /\ cmp' = [fwd |-> Compare(u1, u2), rev |-> Compare(u2, u1)]
    /\ UNCHANGED <<t1, t2, u1, u2, err, dec, memVars, strVars>>

\* u1.Time()
DecodeTime ==
    /\ u1 # Nil
    /\ dec = Nil
    /\ dec' = Time(u1)
    /\ UNCHANGED <<t1, t2, u1, u2, err, cmp, memVars, strVars>>

NextTime == GenerateFirst \/ GenerateSecond \/ CompareBoth \/ DecodeTime

SpecTime == InitTime /\ [][NextTime]_vars

(***************************************************************************)
(* Constructing from the caller's bytes, copying, and overwriting bytes    *)
(***************************************************************************)

\* how far past sixteen bytes the caller's buffers go
MaxExtra == 1

\* how many bytes the caller overwrites
MaxWrites == 2

\* n bytes of value b
Fill(k, b) == [i \in 1..k |-> b]

\* 6ba7b811-9dad-11d1-80b4-00c04fd430c8
url == <<107, 167, 184, 17, 157, 173, 17, 209, 128, 180, 0, 192, 79, 212, 48, 200>>

\* the buffers handed to NewBytes: every length around sixteen, of zeros and
\* of 0xff, a version-1 identifier, the Unix epoch itself, the greatest
\* timestamp whose nanoseconds fit an int64 (0x02F9CBE68E6287AE) and the next
BufferSamples ==
    { Fill(k, b) : k \in {0, 1, size - 1} \cup (size .. size + MaxExtra), b \in {0, 255} }
        \cup { url,
               PutUint32(gregorianEpoch[2], gregorianEpoch[1]) \o PutUint16(gregorianEpoch[3])
                   \o PutUint16(gregorianEpoch[4]) \o Fill(8, 0),
               <<142, 98, 135, 174, 203, 230, 2, 249>> \o Fill(8, 0),
               <<142, 98, 135, 175, 203, 230, 2, 249>> \o Fill(8, 0) }

\* the places and the values the caller overwrites
WritePlaces == {1, size}

WriteValues == {0, 255}

InitBytes ==
    /\ mem \in { <<b>> : b \in BufferSamples }
    /\ buf = 1
    /\ u = NilRef
    /\ c = NilRef
    /\ v = NilRef
    /\ writes = 0
    /\ err = NoError
    /\ TimeIdle
    /\ StrIdle

\* u, err := NewBytes(buf)
CallNewBytes ==
    /\ u = NilRef
    /\ LET r == NewBytes(mem, buf)
       IN  mem' = r.mem /\ u' = r.uuid /\ err' = r.err
    /\ UNCHANGED <<buf, c, v, writes, timeVars, strVars>>

\* c := Copy(u)
CallCopy ==
    /\ c = NilRef
    /\ LET r == Copy(mem, u)
       IN  mem' = r.mem /\ c' = r.uuid
    /\ UNCHANGED <<buf, u, v, writes, err, timeVars, strVars>>

\* v := u.Bytes()
CallBytes ==
    /\ u # NilRef
    /\ v = NilRef
    /\ v' = Bytes(u)
    /\ UNCHANGED <<mem, buf, u, c, writes, err, timeVars, strVars>>

\* h[i-1] = b for a slice h the caller holds
Write(h, i, b) ==
    /\ h # NilRef
    /\ writes < MaxWrites
    /\ i <= Len(mem[h])
    /\ mem' = [mem EXCEPT ![h][i] = b]
    /\ writes' = writes + 1
    /\ UNCHANGED <<buf, u, c, v, err, timeVars, strVars>>

WriteBuf == \E i \in WritePlaces, b \in WriteValues : Write(buf, i, b)

WriteU == \E i \in WritePlaces, b \in WriteValues : Write(u, i, b)

WriteC == \E i \in WritePlaces, b \in WriteValues : Write(c, i, b)

WriteV == \E i \in WritePlaces, b \in WriteValues : Write(v, i, b)

NextBytes ==
    CallNewBytes \/ CallCopy \/ CallBytes \/ WriteBuf \/ WriteU \/ WriteC \/ WriteV

SpecBytes == InitBytes /\ [][NextBytes]_vars

(***************************************************************************)
(* Parsing and formatting text                                             *)
(***************************************************************************)

\* how many hyphens the caller puts into the text before parsing it
MaxHyphens == 2

\* sixteen bytes showing every hex digit in both halves of a byte
allDigits == <<1, 35, 69, 103, 137, 171, 205, 239, 254, 220, 186, 152, 118, 84, 50, 16>>

\* txt with its letters a-f in capitals
ToUpper(txt) ==
    [i \in 1..Len(txt) |->
        IF \E k \in 11..16 : hextable[k] = txt[i]
        THEN upperDigits[(CHOOSE k \in 11..16 : hextable[k] = txt[i]) - 10]
        ELSE txt[i]]

\* k copies of the character ch
Repeat(k, ch) == [i \in 1..k |-> ch]

\* "6ba7b811-9dad-11d1-80b4-00c04fd430c8"
urlString ==
    <<"6", "b", "a", "7", "b", "8", "1", "1", "-", "9", "d", "a",
      "d", "-", "1", "1", "d", "1", "-", "8", "0", "b", "4", "-",
      "0", "0", "c", "0", "4", "f", "d", "4", "3", "0", "c", "8">>

\* the caller's text of 32 digits, written in groups of 8-4-4-4-12
Grouped(d) ==
    SubSeq(d, 1, 8) \o <<"-">> \o SubSeq(d, 9, 12) \o <<"-">> \o SubSeq(d, 13, 16)
        \o <<"-">> \o SubSeq(d, 17, 20) \o <<"-">> \o SubSeq(d, 21, 32)

\* the texts handed to NewString: canonical strings, bare digits, capitals,
\* texts too short and too long by one digit and by many, texts with a
\* character that is no hex digit, and texts of hyphens and digits
StringSamples ==
    LET digits == EncodeToString(url)
    IN  { urlString, Grouped(EncodeToString(allDigits)), Grouped(Repeat(32, "0")),
          Grouped(Repeat(32, "f")),
          digits, ToUpper(digits), ToUpper(Grouped(EncodeToString(allDigits))),
          <<>>, Repeat(4, "0"), SubSeq(digits, 1, 30), SubSeq(digits, 1, 31),
          digits \o <<"0">>, digits \o <<"0", "0">>, digits \o <<"0", "0", "0">>,
          Repeat(41, "0"), digits \o digits,
          [digits EXCEPT ![5] = "g"], [digits EXCEPT ![32] = "G"],
          digits \o <<"g">>, [digits EXCEPT ![1] = " "] \o <<"0">>, Repeat(4, "g"),
          Repeat(4, "0") \o Repeat(24, "-") \o Repeat(4, "0"),
          Repeat(20, "-") \o digits \o Repeat(20, "-") }

\* the places a hyphen is put: after that many characters
HyphenPlaces == {0, 1, 8, 32}

InitString ==
    /\ s \in StringSamples
    /\ hyphens = 0
    /\ p = Nil
    /\ str = Nil
    /\ q = Nil
    /\ n = Nil
    /\ err = NoError
    /\ TimeIdle
    /\ MemIdle

\* the caller puts one more hyphen into the text
Hyphenate ==
    /\ p = Nil
    /\ err = NoError
    /\ hyphens < MaxHyphens
    /\ \E k \in HyphenPlaces :
          /\ k <= Len(s)
          /\ s' = SubSeq(s, 1, k) \o <<"-">> \o SubSeq(s, k + 1, Len(s))
    /\ hyphens' = hyphens + 1
    /\ UNCHANGED <<p, str, q, n, err, timeVars, memVars>>

\* p, err := NewString(s)
CallNewString ==
    /\ p = Nil
    /\ err = NoError
    /\ LET r == NewString(s)
       IN  p' = r.uuid /\ err' = r.err
    /\ UNCHANGED <<s, hyphens, str, q, n, timeVars, memVars>>

\* str := p.String()
CallString ==
    /\ p # Nil
    /\ str = Nil
    /\ str' = String(p)
    /\ UNCHANGED <<s, hyphens, p, q, n, err, timeVars, memVars>>

\* q, err := NewString(str)
CallNewStringOfString ==
    /\ str # Nil
    /\ q = Nil
    /\ err = NoError
    /\ LET r == NewString(str)
       IN  q' = r.uuid /\ err' = r.err
    /\ UNCHANGED <<s, hyphens, p, str, n, timeVars, memVars>>

\* n, err := NewString(strings.Replace(s, "-", "", -1))
CallNewStringStripped ==
    /\ p # Nil
    /\ n = Nil
    /\ err = NoError
    /\ LET r == NewString(ReplaceHyphens(s))
       IN  n' = r.uuid /\ err' = r.err
    /\ UNCHANGED <<s, hyphens, p, str, q, timeVars, memVars>>

NextString ==
    Hyphenate \/ CallNewString \/ CallString \/ CallNewStringOfString \/ CallNewStringStripped

SpecString == InitString /\ [][NextString]_vars

(***************************************************************************)
(* Properties of generation, decoding and comparison                       *)
(***************************************************************************)

\* the 100ns tick of a time: UnixNano()/100 in Go's integer division
Tick(t) == Quo64(UnixNano(t), 100)

\* C1: NewTime(t) succeeds and the decoded Time() is t truncated to 100ns:
\* Time().UnixNano()/100 = t.UnixNano()/100, and the decoded time lies on a
\* tick, so only the remainder below 100ns is lost.
RoundTripTo100ns ==
    /\ u1 # Nil => (Len(u1) = size /\ err = NoError)
    /\ dec # Nil =>
          /\ Quo64(UnixNano(dec), 100) = Tick(t1)
          /\ UnixNano(dec) = MulSmall64(Tick(t1), 100)

\* a time with a remainder below 100ns, before the Unix epoch, has been
\* generated and decoded: the remainder is gone
RoundTripWitness ==
    /\ dec # Nil
    /\ IsNeg64(UnixNano(t1))
    /\ UnixNano(dec) # UnixNano(t1)

GeneratedVersionAndVariant ==
    /\ u1 # Nil => Version(u1) = 1 /\ Variant(u1) = 4
    /\ u2 # Nil => Version(u2) = 1 /\ Variant(u2) = 4

\* an identifier generated with the greatest clock-sequence draw, and one
\* generated from the greatest time
VersionVariantWitness ==
    /\ u1 # Nil
    /\ u2 # Nil
    /\ Uint16(u1, 9) = variant + 8190
    /\ t2.sec = Dec(<<9, 223, 372, 36>>)

PostEpoch(t) == ~IsNeg64(t.sec) /\ UnixNano(t) # Zero64

Read(h) == IF h = NilRef THEN Nil ELSE mem[h]

\* C3: NewBytes(input) succeeds if and only if len(input) = 16: then the
\* identifier's Bytes() equal the input byte for byte, and otherwise the
\* result is the nil identifier with the length-mismatch error.
NewBytesIffSixteen ==
    [][CallNewBytes =>
          IF len(mem, buf) = size
          THEN /\ u' # NilRef
               /\ err' = NoError
               /\ mem'[Bytes(u')] = mem[buf]
          ELSE /\ u' = NilRef
               /\ err' = parseErrorLength]_vars

\* NewBytes has refused a buffer longer than sixteen bytes
NewBytesRefusedWitness ==
    /\ len(mem, buf) > size
    /\ u = NilRef
    /\ err = parseErrorLength

\* C7: an identifier made by NewBytes or Copy shares no storage with its
\* source: a write to the caller's buffer leaves u and c as they were, a write
\* to u (directly or through u.Bytes()) leaves the buffer and c as they were,
\* and a write to c leaves the buffer and u as they were.
NoSharedStorage ==
    [][/\ WriteBuf => Read(u)' = Read(u) /\ Read(c)' = Read(c)
       /\ WriteU => Read(buf)' = Read(buf) /\ Read(c)' = Read(c)
       /\ WriteV => Read(buf)' = Read(buf) /\ Read(c)' = Read(c)
       /\ WriteC => Read(buf)' = Read(buf) /\ Read(u)' = Read(u)]_vars

\* the buffer, the identifier made from it and the copy of the identifier
\* hold three different byte sequences: writes have gone to two of them
NoSharedStorageWitness ==
    /\ u # NilRef
    /\ c # NilRef
    /\ Read(u) # Read(buf)
    /\ Read(c) # Read(u)
    /\ Read(c) # Read(buf)

\* a 64-bit word as an int64, widened to five limbs
Widen(a) == a \o << IF IsNeg64(a) THEN Base - 1 ELSE 0 >>

\* the int64 a times a small k, exactly (five limbs hold it)
MulExact(a, k) ==
    LET w  == Widen(a)
        c1 == w[1] * k
        c2 == w[2] * k + (c1 \div Base)
        c3 == w[3] * k + (c2 \div Base)
        c4 == w[4] * k + (c3 \div Base)
        c5 == w[5] * k + (c4 \div Base)
    IN  <<c1 % Base, c2 % Base, c3 % Base, c4 % Base, c5 % Base>>

\* Nanoseconds() of the identifier is (T - 0x01B21DD213814000) * 100 exactly,
\* and is negative exactly when T is below the offset
NanosecondsExact(me) ==
    /\ Widen(Nanoseconds(me)) = MulExact(Sub64(uuidTimeOf(me), gregorianEpoch), 100)
    /\ IsNeg64(Nanoseconds(me)) <=> ULess64(uuidTimeOf(me), gregorianEpoch)

\* C10: for every 16-byte identifier, whatever its bytes, Nanoseconds() is
\* (T - 0x01B21DD213814000) * 100 as an exact integer, T the 60-bit timestamp
\* with the version nibble masked out; it is negative exactly when T is below
\* the offset, and a larger T gives a larger Nanoseconds().
NanosecondsExactForAllBytes ==
    /\ u # NilRef => NanosecondsExact(Read(u))
    /\ c # NilRef => NanosecondsExact(Read(c))
    /\ (u # NilRef /\ c # NilRef /\ ULess64(uuidTimeOf(Read(u)), uuidTimeOf(Read(c))))
          => Less64(Nanoseconds(Read(u)), Nanoseconds(Read(c)))

(***************************************************************************)
(* Properties of parsing and formatting                                    *)
(***************************************************************************)

\* txt is a canonical string: lowercase hex digits in groups of 8-4-4-4-12
IsCanonical(txt) ==
    /\ Len(txt) = 36
    /\ \A i \in 1..36 :
          IF i \in {9, 14, 19, 24} THEN txt[i] = "-"
          ELSE \E k \in 1..16 : hextable[k] = txt[i]

\* C5: NewString is the exact inverse of String: parsing the String() of an
\* identifier succeeds and gives its bytes back, formatting the identifier
\* parsed from a canonical lowercase string gives that string back, and
\* parsing the string with its hyphens removed gives an identifier of the
\* same String().
NewStringInvertsString ==
    [][/\ CallString => (IsCanonical(s) => str' = s)
       /\ CallNewStringOfString => (err' = NoError /\ q' = p)
       /\ CallNewStringStripped => (err' = NoError /\ n' # Nil /\ String(n') = String(p))]_vars

\* a canonical string with letters has been parsed, formatted, parsed again
\* from its String() and parsed without its hyphens
NewStringInvertsStringWitness ==
    /\ IsCanonical(s)
    /\ s[1] = "6"
    /\ s[2] = "b"
    /\ str = s
    /\ q = p
    /\ n = p
    /\ Len(p) = size

\* NewString(s) has been called
Parsed == p # Nil \/ err # NoError

\* some character of txt is no hex digit
HasInvalidDigit(txt) == \E i \in 1..Len(txt) : fromHexChar(txt[i]) > 15

\* C6 as stated: with the hyphens removed, a text of other than 32 characters
\* fails with the length-mismatch error and yields no identifier; a decode
\* error is returned only for a text of the right length with an invalid hex
\* digit; 32 valid hex digits with hyphens anywhere succeed.
NewStringErrorsByLength ==
    Parsed =>
        LET normalized == SelectSeq(s, LAMBDA ch : ch # "-")
        IN  /\ Len(normalized) # 32 => (p = Nil /\ err = parseErrorLength)
            /\ (p = Nil /\ err \in {hexErrLength, hexInvalidByte})
                  => (Len(normalized) = 32 /\ HasInvalidDigit(normalized))
            /\ (Len(normalized) = 32 /\ ~HasInvalidDigit(normalized)) => p # Nil

\* C6 amended: with the hyphens removed, a text of neither 32 nor 33
\* characters fails with the length-mismatch error and yields no identifier;
\* a text of 33 characters yields no identifier and fails with a decode error
\* of encoding/hex (odd length or invalid digit), not with the length-mismatch
\* error; a text of 32 characters fails with the invalid-digit decode error
\* exactly when one of them is no hex digit, and otherwise succeeds, wherever
\* and however many the hyphens.
NewStringErrorsByDecodedLength ==
    Parsed =>
        LET normalized == SelectSeq(s, LAMBDA ch : ch # "-")
        IN  /\ Len(normalized) \notin {32, 33} => (p = Nil /\ err = parseErrorLength)
            /\ Len(normalized) = 33 => (p = Nil /\ err \in {hexErrLength, hexInvalidByte})
            /\ (Len(normalized) = 32 /\ HasInvalidDigit(normalized))
                  => (p = Nil /\ err = hexInvalidByte)
            /\ (Len(normalized) = 32 /\ ~HasInvalidDigit(normalized))
                  => (p # Nil /\ Len(p) = size)

\* a text of 33 hex digits, hyphens among them, has been refused with the
\* odd-length error of encoding/hex
NewStringOddLengthWitness ==
    /\ hyphens > 0
    /\ Len(SelectSeq(s, LAMBDA ch : ch # "-")) = 33
    /\ p = Nil
    /\ err = hexErrLength

====
